---- MODULE Spec2Model ----
(***************************************************************************)
(* Model of the eBay Trading API exporter (src/src/main.rs): the sliding-  *)
(* window RateLimiter, TradingApiClient::make_request, the paginating      *)
(* TradingDataFetcher, the TradingDataProcessor flattening, the            *)
(* ExcelExporter and TradingApiExporter::run.                              *)
(*                                                                         *)
(* Time.  One tick is 100 ms.  An Instant is kept relative to the clock,   *)
(* as its age (clock - instant) in ticks, so that the clock itself is      *)
(* unbounded while the state stays finite.  Ages saturate at AgeCap, which *)
(* is past every comparison the code makes.                                *)
(***************************************************************************)
EXTENDS Integers, Sequences, FiniteSets, TLC

\* ---------------------------------------------------------------- bounds
NumCallers == 2      \* tasks sharing the one RateLimiter
MaxStale == 1        \* ticks that may pass between Instant::now() and the push
MaxPages == 3        \* pages the server holds; the fetch asks for no page beyond
MaxRows == 2         \* rows export_to_excel is handed when it is tried alone

\* ------------------------------------------------------ program constants
REQUESTS_PER_SECOND == 2     \* Config::REQUESTS_PER_SECOND
WindowTicks == 10            \* Duration::from_secs(1)
PollTicks == 1               \* Duration::from_millis(100)
DelayTicks == 5              \* self.api_client.sleep(500)

Callers == 1..NumCallers
NoOwner == 0
Main == 1                    \* the task that runs the fetch
AgeCap == WindowTicks + MaxStale

VARIABLES
    times,      \* RateLimiter.times: Vec<Instant>, each Instant as its age
    lock,       \* owner of the tokio Mutex around times, NoOwner when free
    pc,         \* pc[c]: position of caller c inside wait_for_slot
    now,        \* now[c]: the local `now` of caller c, as its age
    sleepLeft,  \* sleepLeft[c]: ticks left of the sleep caller c is in
    granted,    \* history: ages of the latest granted slots, oldest first
    server,     \* the server: the reply it gives to the request for page p
    fpc,        \* position of the fetch task in fetch_mye_bay_category
    page,       \* fetch_mye_bay_category: page
    all_items,  \* fetch_mye_bay_category: all_items
    resp,       \* what make_request returned for the current page
    outcome,    \* what fetch_mye_bay_category returned
    request_count,  \* Logger.request_count
    sent,       \* history: the page numbers of the HTTP requests sent
    item,       \* process_item: the record handed to it
    row,        \* process_item: the row it returned, if it has
    data,       \* export_to_excel: data
    epc,        \* position in export_to_excel
    row_idx,    \* export_to_excel: row_idx, counted from 1
    sheet,      \* export_to_excel: the workbook and its worksheet
    file,       \* what has been written to `filename`
    export_result,  \* what export_to_excel returned
    env,        \* the environment variables that are set
    rpc,        \* position in TradingApiExporter::run
    run_result, \* what run returned
    events,     \* history: the steps of the fetch's make_request calls, in order
    processedAge    \* history: ticks since the loop body last finished a page

limiterVars == <<times, lock, pc, now, sleepLeft, granted>>
fetchVars == <<server, fpc, page, all_items, resp, outcome, request_count, sent>>
flatVars == <<item, row>>
exportVars == <<data, epc, row_idx, sheet, file, export_result>>
runVars == <<env, rpc, run_result>>
histVars == <<events, processedAge>>
vars == <<times, lock, pc, now, sleepLeft, granted,
          server, fpc, page, all_items, resp, outcome, request_count, sent,
          item, row,
          data, epc, row_idx, sheet, file, export_result,
          env, rpc, run_result,
          events, processedAge>>

\* An entry of the history: what happened, and for which page.
Event(what, p) == [e |-> what, page |-> p]

Min(a, b) == IF a < b THEN a ELSE b
Max(a, b) == IF a > b THEN a ELSE b

\* ------------------------------------------------------------ RateLimiter

\* Instant::duration_since(earlier): saturates at zero when `earlier` is
\* later than self.  Both instants are given as ages.
DurationSince(nowAge, tAge) == Max(0, tAge - nowAge)

\* times.retain(|t| now.duration_since(*t) < Duration::from_secs(1))
\* (Retained_le is the faulty variant that keeps a timestamp exactly 1 s old.)
Retained_le(ts, nowAge) ==
    SelectSeq(ts, LAMBDA t : DurationSince(nowAge, t) <= WindowTicks)
Retained(ts, nowAge) ==
    SelectSeq(ts, LAMBDA t : DurationSince(nowAge, t) < WindowTicks)

\* times.len() < Config::REQUESTS_PER_SECOND
\* (Faulty variants: HasSlot_le has <=, HasSlot_never finds no slot.)
HasSlot_le(ts) == Len(ts) <= REQUESTS_PER_SECOND
HasSlot_never(ts) == FALSE
HasSlot(ts) == Len(ts) < REQUESTS_PER_SECOND

\* Mutex::lock() completes only when no task holds the guard.
\* (LockFree_always is the faulty variant without mutual exclusion.)
LockFree_always(l) == TRUE
LockFree(l) == l = NoOwner

InCritical == {"now", "retain", "check", "push", "drop"}

\* The history keeps the latest REQUESTS_PER_SECOND + 1 grants.
Latest(s) ==
    IF Len(s) > REQUESTS_PER_SECOND + 1
    THEN SubSeq(s, Len(s) - REQUESTS_PER_SECOND, Len(s))
    ELSE s

\* let mut times = self.times.lock().await;
Lock(c) ==
    /\ pc[c] = "lock"
    /\ LockFree(lock)
    /\ lock' = c
    /\ pc' = [pc EXCEPT ![c] = "now"]
    /\ UNCHANGED <<times, now, sleepLeft, granted>>
    /\ UNCHANGED fetchVars
    /\ UNCHANGED flatVars
    /\ UNCHANGED <<exportVars, runVars>>
    /\ UNCHANGED histVars

\* let now = Instant::now();
ReadNow(c) ==
    /\ pc[c] = "now"
    /\ now' = [now EXCEPT ![c] = 0]
    /\ pc' = [pc EXCEPT ![c] = "retain"]
    /\ UNCHANGED <<times, lock, sleepLeft, granted>>
    /\ UNCHANGED fetchVars
    /\ UNCHANGED flatVars
    /\ UNCHANGED <<exportVars, runVars>>
    /\ UNCHANGED histVars

\* times.retain(...)
Retain(c) ==
    /\ pc[c] = "retain"
    /\ times' = Retained(times, now[c])
    /\ pc' = [pc EXCEPT ![c] = "check"]
    /\ UNCHANGED <<lock, now, sleepLeft, granted>>
    /\ UNCHANGED fetchVars
    /\ UNCHANGED flatVars
    /\ UNCHANGED <<exportVars, runVars>>
    /\ UNCHANGED histVars

\* if times.len() < Config::REQUESTS_PER_SECOND
Check(c) ==
    /\ pc[c] = "check"
    /\ pc' = [pc EXCEPT ![c] = IF HasSlot(times) THEN "push" ELSE "drop"]
    /\ UNCHANGED <<times, lock, now, sleepLeft, granted>>
    /\ UNCHANGED fetchVars
    /\ UNCHANGED flatVars
    /\ UNCHANGED <<exportVars, runVars>>
    /\ UNCHANGED histVars

\* times.push(now); break;   the guard is dropped on leaving the loop
Push(c) ==
    /\ pc[c] = "push"
    /\ times' = Append(times, now[c])
    /\ granted' = Latest(Append(granted, now[c]))
    /\ lock' = IF lock = c THEN NoOwner ELSE lock
    /\ now' = [now EXCEPT ![c] = 0]
    /\ pc' = [pc EXCEPT ![c] = "idle"]
    /\ UNCHANGED sleepLeft
    /\ UNCHANGED fetchVars
    /\ UNCHANGED flatVars
    /\ UNCHANGED <<exportVars, runVars>>
    /\ events' = IF c = Main /\ fpc = "wait" THEN Append(events, Event("slot", page))
                 ELSE events
    /\ UNCHANGED processedAge

\* drop(times); tokio::time::sleep(Duration::from_millis(100))
Drop(c) ==
    /\ pc[c] = "drop"
    /\ lock' = IF lock = c THEN NoOwner ELSE lock
    /\ now' = [now EXCEPT ![c] = 0]
    /\ sleepLeft' = [sleepLeft EXCEPT ![c] = PollTicks]
    /\ pc' = [pc EXCEPT ![c] = "sleep"]
    /\ UNCHANGED <<times, granted>>
    /\ UNCHANGED fetchVars
    /\ UNCHANGED flatVars
    /\ UNCHANGED <<exportVars, runVars>>
    /\ UNCHANGED histVars

\* the sleep is over: back to the top of the loop
Wake(c) ==
    /\ pc[c] = "sleep"
    /\ sleepLeft[c] = 0
    /\ pc' = [pc EXCEPT ![c] = "lock"]
    /\ UNCHANGED <<times, lock, now, sleepLeft, granted>>
    /\ UNCHANGED fetchVars
    /\ UNCHANGED flatVars
    /\ UNCHANGED <<exportVars, runVars>>
    /\ UNCHANGED histVars

\* A caller enters wait_for_slot.
CallWait(c) ==
    /\ pc[c] = "idle"
    /\ pc' = [pc EXCEPT ![c] = "lock"]
    /\ UNCHANGED <<times, lock, now, sleepLeft, granted>>
    /\ UNCHANGED fetchVars
    /\ UNCHANGED flatVars
    /\ UNCHANGED <<exportVars, runVars>>
    /\ UNCHANGED histVars

\* 100 ms pass: every Instant ages by one tick.  At most MaxStale ticks pass
\* between a caller's Instant::now() and its push, and the clock is not followed
\* once the fetch has returned.
AgeSeq(s) == [i \in DOMAIN s |-> Min(s[i] + 1, AgeCap)]
Tick ==
    /\ fpc # "done"
    /\ \A c \in Callers : pc[c] \in {"retain", "check", "push"} => now[c] < MaxStale
    /\ times' = AgeSeq(times)
    /\ now' = [c \in Callers |->
                 IF pc[c] \in {"retain", "check", "push"} THEN now[c] + 1 ELSE now[c]]
    /\ sleepLeft' = [c \in Callers |-> Max(0, sleepLeft[c] - 1)]
    /\ granted' = SelectSeq(AgeSeq(granted), LAMBDA a : a < AgeCap)
    /\ UNCHANGED <<lock, pc>>
    /\ UNCHANGED fetchVars
    /\ UNCHANGED flatVars
    /\ UNCHANGED <<exportVars, runVars>>
    /\ processedAge' = Min(processedAge + 1, DelayTicks)
    /\ UNCHANGED events

\* ----------------------------------------------------- serde_json::Value

\* A Value is a tagged record; Absent is Option::None.
Null == [t |-> "null"]
Absent == [t |-> "none"]
Str(s) == [t |-> "str", s |-> s]
Bool(b) == [t |-> "bool", b |-> b]
Arr(a) == [t |-> "arr", a |-> a]
Obj(o) == [t |-> "obj", o |-> o]

\* Value::get(key) with a string key: Some only on an object holding the key.
\* Get(Absent, key) = Absent is Option::and_then.
Get(v, key) ==
    IF v.t = "obj" THEN (IF key \in DOMAIN v.o THEN v.o[key] ELSE Absent) ELSE Absent

\* Value::as_str() is Some
IsStr(v) == v.t = "str"

\* One member of an object, none when the value is absent.
Field(key, v) == IF v = Absent THEN <<>> ELSE key :> v

\* --------------------------------------------------------- the server

ListType == "ActiveList"     \* fetch_all_seller_listings: list_type

I1 == Obj("ItemID" :> Str("1"))
I2 == Obj("ItemID" :> Str("2"))
I3 == Obj("ItemID" :> Str("3"))

\* The list container of a response.
Container(node, more) ==
    Obj(Field("ItemArray", Obj(Field("Item", node))) @@ Field("HasMoreItems", more))

\* The decoded body of a response.
Tree(ack, errors, container) ==
    Obj(Field("Ack", ack) @@ Field("Errors", errors) @@ Field(ListType, container))

\* A reply: did send() and text() succeed, the HTTP status, does the body
\* parse (quick_xml::de::from_str), and the tree it parses to.
NetFail == [net |-> FALSE, status |-> 0, parses |-> FALSE, tree |-> Null]
Garbled(st) == [net |-> TRUE, status |-> st, parses |-> FALSE, tree |-> Null]
Http(st, tree) == [net |-> TRUE, status |-> st, parses |-> TRUE, tree |-> tree]

Statuses == {200, 500}
ErrorsNode == Obj("ShortMessage" :> Str("bad token"))
Acks == {Absent, Str("Success"), Str("Warning"), Str("Failure"),
         Str("PartialFailure"), Arr(<<Str("Failure")>>)}
ItemNodes == {Arr(<<>>), Arr(<<I1, I2>>), Arr(<<I2>>), I3, Str("x"), Null}
Flags == {Absent, Str("true"), Str("True"), Str("false"), Bool(TRUE)}
Containers ==
    {Absent, Null}
    \cup {Obj(Field("HasMoreItems", m)) : m \in Flags}
    \cup {Obj(("ItemArray" :> Obj(<<>>)) @@ Field("HasMoreItems", m)) : m \in Flags}
    \cup {Container(node, m) : node \in ItemNodes, m \in Flags}

\* The replies the first page is drawn from: every acknowledgement under
\* every status, and every container shape.
FirstReplies ==
    {NetFail}
    \cup {Garbled(st) : st \in Statuses}
    \cup {Http(st, Tree(ack, ErrorsNode, Container(Arr(<<I1>>), Str("false")))) :
             st \in Statuses, ack \in Acks}
    \cup {Http(200, Tree(Str("PartialFailure"), Absent,
                         Container(Arr(<<I1, I2>>), Str("true")))),
          Http(500, Tree(Str("Success"), Absent,
                         Container(Arr(<<I1, I2>>), Str("true"))))}
    \cup {Http(200, Tree(Str("Success"), Absent, c)) : c \in Containers}

\* The replies the later pages are drawn from.
LaterReplies ==
    {NetFail,
     Http(200, Tree(Str("Success"), Absent, Container(Arr(<<I1, I2>>), Str("true")))),
     Http(200, Tree(Str("Success"), Absent, Container(Arr(<<>>), Str("true")))),
     Http(200, Tree(Str("Success"), Absent, Container(I3, Str("false"))))}

Scripts ==
    {<<r>> \o t : r \in FirstReplies, t \in [1..(MaxPages - 1) -> LaterReplies]}

\* Successful replies that lack the list container, its ItemArray or the Item
\* inside it, next to two replies that go on to the next page.
PartReplies ==
    {Http(200, Tree(Str("Success"), Absent, Absent)),
     Http(200, Tree(Str("Warning"), Absent, Obj(Field("HasMoreItems", Str("true"))))),
     Http(200, Tree(Str("Success"), Absent,
                    Obj(("ItemArray" :> Obj(<<>>)) @@ Field("HasMoreItems", Str("true"))))),
     Http(200, Tree(Str("Success"), Absent, Container(Arr(<<I1, I2>>), Str("true")))),
     Http(200, Tree(Absent, Absent, Container(I3, Str("true"))))}

\* ------------------------------------------------------ TradingApiClient

Ok(v) == [ok |-> TRUE, value |-> v]
Err(kind, detail) == [ok |-> FALSE, kind |-> kind, detail |-> detail]
NoResult == [ok |-> FALSE, kind |-> "none", detail |-> Absent]

\* ack == "Failure" || ack == "PartialFailure", on value.get("Ack").as_str()
\* (IsFailureAck_failureOnly is the faulty variant that misses "PartialFailure".)
IsFailureAck_failureOnly(value) == Get(value, "Ack") = Str("Failure")
IsFailureAck(value) ==
    LET ack == Get(value, "Ack")
    IN  IsStr(ack) /\ ack.s \in {"Failure", "PartialFailure"}

\* make_request from the reply on: send()?, text()?, from_str()?, the Ack test.
\* The HTTP status is never read.
MakeRequestResult(r) ==
    IF ~r.net THEN Err("transport", Absent)
    ELSE IF ~r.parses THEN Err("parse", Absent)
    ELSE IF IsFailureAck(r.tree) THEN Err("api", Get(r.tree, "Errors"))
    ELSE Ok(r.tree)

\* ----------------------------------------------------- TradingDataFetcher

\* extract_items
\* (Faulty variants: ExtractItems_listOnly drops a bare Item,
\* ExtractItems_nullItem takes a missing Item for a null one.)
ExtractItems_nullItem(list_container) ==
    LET items == Get(Get(list_container, "ItemArray"), "Item")
    IN  IF items = Absent THEN <<Null>>
        ELSE IF items.t = "arr" THEN items.a
        ELSE <<items>>
ExtractItems_listOnly(list_container) ==
    LET items == Get(Get(list_container, "ItemArray"), "Item")
    IN  IF items.t = "arr" THEN items.a ELSE <<>>
ExtractItems(list_container) ==
    LET items == Get(Get(list_container, "ItemArray"), "Item")
    IN  IF items = Absent THEN <<>>
        ELSE IF items.t = "arr" THEN items.a
        ELSE <<items>>

\* list_container.get("HasMoreItems").and_then(as_str).map(s == "true").unwrap_or(false)
\* (Faulty variants: HasMore_absentTrue is unwrap_or(true), HasMore_always
\* never stops on the flag, HasMore_anyCase also takes "True".)
HasMore_absentTrue(list_container) ==
    LET v == Get(list_container, "HasMoreItems")
    IN  v = Absent \/ (IsStr(v) /\ v.s = "true")
HasMore_always(list_container) == TRUE
HasMore_anyCase(list_container) ==
    LET v == Get(list_container, "HasMoreItems")
    IN  IsStr(v) /\ v.s \in {"true", "True"}
HasMore(list_container) ==
    LET v == Get(list_container, "HasMoreItems")
    IN  IsStr(v) /\ v.s = "true"

\* response.get(list_type).cloned().unwrap_or(Value::Null)
ListContainer(response) ==
    LET c == Get(response, ListType) IN IF c = Absent THEN Null ELSE c

\* Ok(all_items)
FetchOk(items) == [ok |-> TRUE, items |-> items]

\* `?` on a failed make_request: the function returns the error.
\* (Propagate_partial is the faulty variant that returns what was fetched.)
Propagate_partial(e, items) == FetchOk(items)
Propagate(e, items) == e

\* all_items.extend(items.into_iter())
\* (Extend_front is the faulty variant that puts the new page first.)
Extend_front(all, items) == items \o all
Extend(all, items) == all \o items

\* Where `?` takes the fetch on a failed make_request: out of the function.
\* (AfterError_retry is the faulty variant that goes round the loop again.)
AfterError_retry == "loop"
AfterError == "done"

\* Top of the loop: build the body for `page` and enter make_request, which
\* starts with wait_for_slot.
MakeRequest ==
    /\ fpc = "loop"
    /\ page <= MaxPages
    /\ pc[Main] = "idle"
    /\ pc' = [pc EXCEPT ![Main] = "lock"]
    /\ fpc' = "wait"
    /\ UNCHANGED <<times, lock, now, sleepLeft, granted>>
    /\ UNCHANGED <<server, page, all_items, resp, outcome, request_count, sent>>
    /\ UNCHANGED flatVars
    /\ UNCHANGED <<exportVars, runVars>>
    /\ events' = Append(events, Event("call", page))
    /\ UNCHANGED processedAge

\* request_count.fetch_add(1, Ordering::Relaxed)
\* (FetchAdd_none is the faulty variant that leaves the counter as it is.)
FetchAdd_none(n) == n
FetchAdd(n) == n + 1

\* self.logger.increment_request(), once wait_for_slot has returned
IncrementRequest ==
    /\ fpc = "wait"
    /\ pc[Main] = "idle"
    /\ request_count' = FetchAdd(request_count)
    /\ fpc' = "send"
    /\ UNCHANGED limiterVars
    /\ UNCHANGED <<server, page, all_items, resp, outcome, sent>>
    /\ UNCHANGED flatVars
    /\ UNCHANGED <<exportVars, runVars>>
    /\ events' = Append(events, Event("count", page))
    /\ UNCHANGED processedAge

\* self.client.post(url)...send(): the request for `page` goes out
SendRequest ==
    /\ fpc = "send"
    /\ sent' = Append(sent, page)
    /\ fpc' = "await"
    /\ UNCHANGED limiterVars
    /\ UNCHANGED <<server, page, all_items, resp, outcome, request_count>>
    /\ UNCHANGED flatVars
    /\ UNCHANGED <<exportVars, runVars>>
    /\ events' = Append(events, Event("send", page))
    /\ UNCHANGED processedAge

\* The reply arrives and make_request returns.
ReceiveReply ==
    /\ fpc = "await"
    /\ resp' = MakeRequestResult(server[page])
    /\ fpc' = "reply"
    /\ UNCHANGED limiterVars
    /\ UNCHANGED <<server, page, all_items, outcome, request_count, sent>>
    /\ UNCHANGED flatVars
    /\ UNCHANGED <<exportVars, runVars>>
    /\ events' = Append(events, Event("reply", page))
    /\ UNCHANGED processedAge

\* The rest of the loop body, from `.await?` to the sleep.
LoopBody ==
    /\ fpc = "reply"
    /\ LET list_container == ListContainer(resp.value)
           items == ExtractItems(list_container)
       IN  IF ~resp.ok
           THEN /\ outcome' = Propagate(resp, all_items)
                /\ fpc' = AfterError
                /\ UNCHANGED <<page, all_items, sleepLeft>>
           ELSE IF items = <<>>
           THEN /\ outcome' = FetchOk(all_items)
                /\ fpc' = "done"
                /\ UNCHANGED <<page, all_items, sleepLeft>>
           ELSE /\ all_items' = Extend(all_items, items)
                /\ IF ~HasMore(list_container)
                   THEN /\ outcome' = FetchOk(all_items')
                        /\ fpc' = "done"
                        /\ UNCHANGED <<page, sleepLeft>>
                   ELSE /\ page' = page + 1
                        /\ sleepLeft' = [sleepLeft EXCEPT ![Main] = DelayTicks]
                        /\ fpc' = "delay"
                        /\ UNCHANGED outcome
    /\ resp' = NoResult
    /\ UNCHANGED <<times, lock, pc, now, granted>>
    /\ UNCHANGED <<server, request_count, sent>>
    /\ UNCHANGED flatVars
    /\ UNCHANGED <<exportVars, runVars>>
    /\ events' = Append(events, Event("body", page))
    /\ processedAge' = 0

\* tokio::time::sleep completes once the whole duration has passed.
\* (DelayOver_atOnce is the faulty variant that does not wait.)
DelayOver_atOnce(left) == TRUE
DelayOver(left) == left = 0

\* self.api_client.sleep(500) is over: next iteration
EndDelay ==
    /\ fpc = "delay"
    /\ DelayOver(sleepLeft[Main])
    /\ fpc' = "loop"
    /\ UNCHANGED limiterVars
    /\ UNCHANGED <<server, page, all_items, resp, outcome, request_count, sent>>
    /\ UNCHANGED flatVars
    /\ UNCHANGED <<exportVars, runVars>>
    /\ UNCHANGED histVars

\* --------------------------------------------------- TradingDataProcessor

\* Vec<&str>::join(sep)
RECURSIVE Join(_, _)
Join(ss, sep) ==
    IF ss = <<>> THEN ""
    ELSE IF Len(ss) = 1 THEN ss[1]
    ELSE ss[1] \o sep \o Join(Tail(ss), sep)

\* arr.iter().filter_map(|v| v.as_str()).collect::<Vec<_>>()
RECURSIVE Strings(_)
Strings(arr) ==
    IF arr = <<>> THEN <<>>
    ELSE IF IsStr(Head(arr)) THEN <<Head(arr).s>> \o Strings(Tail(arr))
    ELSE Strings(Tail(arr))

\* get_str: walk the path, "" at a missing segment or a final non-string
\* (GetStr_lastReached is the faulty variant that stops at a missing segment
\* and reads the node it has reached.)
RECURSIVE GetStr_lastReached(_, _)
GetStr_lastReached(value, path) ==
    IF path = <<>> \/ Get(value, Head(path)) = Absent
    THEN (IF IsStr(value) THEN value.s ELSE "")
    ELSE GetStr_lastReached(Get(value, Head(path)), Tail(path))
RECURSIVE GetStrWalk(_, _)
GetStrWalk(value, path) ==
    IF path = <<>> THEN (IF IsStr(value) THEN value.s ELSE "")
    ELSE IF Get(value, Head(path)) = Absent THEN ""
    ELSE GetStrWalk(Get(value, Head(path)), Tail(path))
GetStr(value, path) == GetStrWalk(value, path)

\* extract_payment_methods
\* (ExtractPaymentMethods_keepAll is the faulty variant whose join does not
\* filter by as_str: an element that is not a string joins as "".)
RECURSIVE Texts(_)
Texts(arr) ==
    IF arr = <<>> THEN <<>>
    ELSE <<(IF IsStr(Head(arr)) THEN Head(arr).s ELSE "")>> \o Texts(Tail(arr))
ExtractPaymentMethods_keepAll(pm) ==
    IF pm = Absent THEN ""
    ELSE IF IsStr(pm) THEN pm.s
    ELSE IF pm.t = "arr" THEN Join(Texts(pm.a), ", ")
    ELSE IF pm.t = "obj" /\ Get(pm, "Payment") # Absent
    THEN LET val == Get(pm, "Payment")
         IN  IF val.t = "arr" THEN Join(Texts(val.a), ", ")
             ELSE IF IsStr(val) THEN val.s
             ELSE ""
    ELSE ""
ExtractPaymentMethods(pm) ==
    IF pm = Absent THEN ""
    ELSE IF IsStr(pm) THEN pm.s
    ELSE IF pm.t = "arr" THEN Join(Strings(pm.a), ", ")
    ELSE IF pm.t = "obj" /\ Get(pm, "Payment") # Absent
    THEN LET val == Get(pm, "Payment")
         IN  IF val.t = "arr" THEN Join(Strings(val.a), ", ")
             ELSE IF IsStr(val) THEN val.s
             ELSE ""
    ELSE ""

\* HashMap::insert: the new entry replaces one of the same key
Insert(map, key, val) == (key :> val) @@ map

\* process_item
ProcessItem(it) ==
    LET m0 == <<>>
        m1 == Insert(m0, "Item ID", GetStr(it, <<"ItemID">>))
        m2 == Insert(m1, "SKU", GetStr(it, <<"SKU">>))
        m3 == Insert(m2, "Title", GetStr(it, <<"Title">>))
        m4 == Insert(m3, "Category Name", GetStr(it, <<"PrimaryCategory", "CategoryName">>))
        m5 == Insert(m4, "Start Price", GetStr(it, <<"StartPrice", "_">>))
        m6 == Insert(m5, "Current Price",
                     GetStr(it, <<"SellingStatus", "CurrentPrice", "_">>))
        m7 == Insert(m6, "Currency",
                     GetStr(it, <<"SellingStatus", "CurrentPrice", "currencyID">>))
        m8 == Insert(m7, "Quantity", GetStr(it, <<"Quantity">>))
        m9 == Insert(m8, "Quantity Sold", GetStr(it, <<"SellingStatus", "QuantitySold">>))
        m10 == Insert(m9, "Listing Status", GetStr(it, <<"SellingStatus", "ListingStatus">>))
        m11 == Insert(m10, "Start Time", GetStr(it, <<"ListingDetails", "StartTime">>))
        m12 == Insert(m11, "End Time", GetStr(it, <<"ListingDetails", "EndTime">>))
        m13 == Insert(m12, "View Item URL", GetStr(it, <<"ListingDetails", "ViewItemURL">>))
        m14 == Insert(m13, "Seller ID", GetStr(it, <<"Seller", "UserID">>))
        m15 == Insert(m14, "Payment Methods",
                      ExtractPaymentMethods(Get(it, "PaymentMethods")))
    IN  m15

NoRow == [some |-> FALSE]
SomeRow(m) == [some |-> TRUE, map |-> m]

\* process_item is called on the record and returns its row.
ProcessItemCall ==
    /\ row = NoRow
    /\ row' = SomeRow(ProcessItem(item))
    /\ UNCHANGED item
    /\ UNCHANGED limiterVars
    /\ UNCHANGED fetchVars
    /\ UNCHANGED <<exportVars, runVars>>
    /\ UNCHANGED histVars

\* ---- the records process_item is tried on

\* A listing with every node the fifteen fields read, each leaf a string.
FullItem ==
    Obj( ("ItemID" :> Str("110"))
      @@ ("SKU" :> Str("sku-1"))
      @@ ("Title" :> Str("Lamp"))
      @@ ("PrimaryCategory" :> Obj("CategoryName" :> Str("Lighting")))
      @@ ("StartPrice" :> Obj(("_" :> Str("9.99")) @@ ("currencyID" :> Str("USD"))))
      @@ ("SellingStatus" :>
             Obj( ("CurrentPrice" :> Obj(("_" :> Str("12.50")) @@ ("currencyID" :> Str("EUR"))))
               @@ ("QuantitySold" :> Str("3"))
               @@ ("ListingStatus" :> Str("Active")) ))
      @@ ("Quantity" :> Str("7"))
      @@ ("ListingDetails" :>
             Obj( ("StartTime" :> Str("t0"))
               @@ ("EndTime" :> Str("t1"))
               @@ ("ViewItemURL" :> Str("http://x")) ))
      @@ ("Seller" :> Obj("UserID" :> Str("bob")))
      @@ ("PaymentMethods" :> Str("COD")) )

\* The object `o` without the keys in `gone`.
Without(v, gone) == Obj([k \in (DOMAIN v.o) \ gone |-> v.o[k]])

\* The tree `v` with the node at `path` replaced by `new`, or removed when
\* `new` is Absent.
RECURSIVE SetAt(_, _, _)
SetAt(v, path, new) ==
    IF path = <<>> THEN new
    ELSE LET k == Head(path)
             sub == SetAt(v.o[k], Tail(path), new)
         IN  IF sub = Absent THEN Without(v, {k})
             ELSE Obj((k :> sub) @@ v.o)

\* Every place the fields read, as a path from the record.
NodePaths ==
    {<<"ItemID">>, <<"SKU">>, <<"Title">>, <<"Quantity">>,
     <<"PrimaryCategory">>, <<"PrimaryCategory", "CategoryName">>,
     <<"StartPrice">>, <<"StartPrice", "_">>,
     <<"SellingStatus">>, <<"SellingStatus", "CurrentPrice">>,
     <<"SellingStatus", "CurrentPrice", "_">>,
     <<"SellingStatus", "CurrentPrice", "currencyID">>,
     <<"SellingStatus", "QuantitySold">>, <<"SellingStatus", "ListingStatus">>,
     <<"ListingDetails">>, <<"ListingDetails", "StartTime">>,
     <<"ListingDetails", "EndTime">>, <<"ListingDetails", "ViewItemURL">>,
     <<"Seller">>, <<"Seller", "UserID">>, <<"PaymentMethods">>}

\* Shapes a node may wrongly have; Absent removes the node.
Shapes ==
    {Absent, Null, Bool(TRUE), Str(""), Str("9.99"), Arr(<<>>),
     Arr(<<Str("PayPal"), Null, Str("COD")>>), Obj(<<>>),
     Obj("Payment" :> Arr(<<Str("Cash")>>)), Obj("Payment" :> Str("Card")),
     Obj("Payment" :> Null), Obj("_" :> Bool(FALSE)),
     Arr(<<Str("PayPal"), Str("COD")>>),
     Obj("Payment" :> Arr(<<Bool(TRUE), Str("Cash"), Str("Card")>>)),
     Obj("Payment" :> Obj("Payment" :> Str("Card"))),
     Obj("Other" :> Str("Card"))}

FlattenInputs ==
    (Shapes \ {Absent})
    \cup {Without(FullItem, gone) : gone \in SUBSET (DOMAIN FullItem.o)}
    \cup {SetAt(FullItem, path, shape) : path \in NodePaths, shape \in Shapes}

\* ----------------------------------------------------------- ExcelExporter

\* The worksheet keeps its cells by header, not by column number: the order
\* HashMap::keys() gives the columns is not followed.
NoWorkbook == [created |-> FALSE]
NewWorkbook == [created |-> TRUE, headers |-> {}, rows |-> <<>>]
NoFile == [exists |-> FALSE]
SavedFile(ws) == [exists |-> TRUE, whole |-> TRUE, headers |-> ws.headers, rows |-> ws.rows]
PartFile == [exists |-> TRUE, whole |-> FALSE, headers |-> {}, rows |-> <<>>]

\* row.get(header).map(|s| s.as_str()).unwrap_or(""), for each header
Cells(headers, r) == [h \in headers |-> IF h \in DOMAIN r THEN r[h] ELSE ""]

\* std::fs::metadata(filename)?.len(): the size on disk is stood for by the
\* number of cells the file holds.
FileSize(f) == (1 + Len(f.rows)) * Cardinality(f.headers)

\* record_count: data.len()
\* (RecordCount_sheetRows is the faulty variant that counts the header row too.)
RecordCount_sheetRows(d) == Len(d) + 1
RecordCount(d) == Len(d)

ExportResult(count, size) == [record_count |-> count, file_size |-> size]

\* if data.is_empty() { return Err(..) }; Workbook::new(); add_worksheet()
ExportCheckEmpty ==
    /\ epc = "check"
    /\ IF data = <<>>
       THEN /\ export_result' = Err("empty", Absent)
            /\ epc' = "done"
            /\ UNCHANGED sheet
       ELSE /\ sheet' = NewWorkbook
            /\ epc' = "headers"
            /\ UNCHANGED export_result
    /\ UNCHANGED <<data, row_idx, file>>
    /\ UNCHANGED limiterVars
    /\ UNCHANGED fetchVars
    /\ UNCHANGED flatVars
    /\ UNCHANGED runVars
    /\ UNCHANGED histVars

\* headers = data[0].keys(); the header row is written, a write_string may fail
WriteHeaders ==
    /\ epc = "headers"
    /\ \E ok \in (IF DOMAIN data[1] = {} THEN {TRUE} ELSE BOOLEAN) :
          IF ok
          THEN /\ sheet' = [sheet EXCEPT !.headers = DOMAIN data[1]]
               /\ row_idx' = 1
               /\ epc' = "rows"
               /\ UNCHANGED export_result
          ELSE /\ export_result' = Err("xlsx", Absent)
               /\ epc' = "done"
               /\ UNCHANGED <<sheet, row_idx>>
    /\ UNCHANGED <<data, file>>
    /\ UNCHANGED limiterVars
    /\ UNCHANGED fetchVars
    /\ UNCHANGED flatVars
    /\ UNCHANGED runVars
    /\ UNCHANGED histVars

\* one turn of `for (row_idx, row) in data.iter().enumerate()`
WriteRow ==
    /\ epc = "rows"
    /\ row_idx <= Len(data)
    /\ \E ok \in (IF sheet.headers = {} THEN {TRUE} ELSE BOOLEAN) :
          IF ok
          THEN /\ sheet' = [sheet EXCEPT
                              !.rows = Append(@, Cells(sheet.headers, data[row_idx]))]
               /\ row_idx' = row_idx + 1
               /\ epc' = IF row_idx = Len(data) THEN "save" ELSE "rows"
               /\ UNCHANGED export_result
          ELSE /\ export_result' = Err("xlsx", Absent)
               /\ epc' = "done"
               /\ UNCHANGED <<sheet, row_idx>>
    /\ UNCHANGED <<data, file>>
    /\ UNCHANGED limiterVars
    /\ UNCHANGED fetchVars
    /\ UNCHANGED flatVars
    /\ UNCHANGED runVars
    /\ UNCHANGED histVars

\* workbook.save(filename)?: a failed save may leave a part of the file
Save ==
    /\ epc = "save"
    /\ \/ /\ file' = SavedFile(sheet)
          /\ epc' = "metadata"
          /\ UNCHANGED export_result
       \/ /\ file' \in {file, PartFile}
          /\ export_result' = Err("xlsx", Absent)
          /\ epc' = "done"
    /\ UNCHANGED <<data, row_idx, sheet>>
    /\ UNCHANGED limiterVars
    /\ UNCHANGED fetchVars
    /\ UNCHANGED flatVars
    /\ UNCHANGED runVars
    /\ UNCHANGED histVars

\* std::fs::metadata(filename)? and Ok(ExportResult { .. })
Metadata ==
    /\ epc = "metadata"
    /\ \E ok \in BOOLEAN :
          export_result' = IF ok THEN Ok(ExportResult(RecordCount(data), FileSize(file)))
                           ELSE Err("io", Absent)
    /\ epc' = "done"
    /\ UNCHANGED <<data, row_idx, sheet, file>>
    /\ UNCHANGED limiterVars
    /\ UNCHANGED fetchVars
    /\ UNCHANGED flatVars
    /\ UNCHANGED runVars
    /\ UNCHANGED histVars

\* ---- the rows export_to_excel is tried on
ExportRows ==
    {("Item ID" :> "1") @@ ("Title" :> "Lamp"),
     ("Item ID" :> "2") @@ ("Title" :> ""),
     ("Item ID" :> "3"),
     ("SKU" :> "s") @@ ("Item ID" :> "4") @@ ("Title" :> "Desk")}
ExportInputs == UNION {[1..n -> ExportRows] : n \in 0..MaxRows}

\* ------------------------------------------------------ TradingApiExporter

\* validate_environment: required
Required == {"EBAY_ACCESS_TOKEN", "EBAY_CLIENT_ID"}
Missing(e) == Required \ e

\* process_seller_listings
ProcessSellerListings(items) == [i \in DOMAIN items |-> ProcessItem(items[i])]

\* run, up to the call of fetch_all_seller_listings
ValidateEnvironment ==
    /\ rpc = "validate"
    /\ IF Missing(env) # {}
       THEN /\ run_result' = Err("env", Missing(env))
            /\ rpc' = "done"
            /\ UNCHANGED fpc
       ELSE /\ rpc' = "fetch"
            /\ fpc' = "loop"
            /\ UNCHANGED run_result
    /\ UNCHANGED env
    /\ UNCHANGED limiterVars
    /\ UNCHANGED <<server, page, all_items, resp, outcome, request_count, sent>>
    /\ UNCHANGED flatVars
    /\ UNCHANGED exportVars
    /\ UNCHANGED histVars

\* if listings.is_empty()
\* (NoListings_never is the faulty variant without the early return.)
NoListings_never(listings) == FALSE
NoListings(listings) == listings = <<>>

\* run, from the return of the fetch to the call of export_to_excel
FetchReturned ==
    /\ rpc = "fetch"
    /\ fpc = "done"
    /\ IF ~outcome.ok
       THEN /\ run_result' = outcome
            /\ rpc' = "done"
            /\ UNCHANGED <<data, epc>>
       ELSE IF NoListings(outcome.items)
       THEN /\ run_result' = Ok(ExportResult(0, 0))
            /\ rpc' = "done"
            /\ UNCHANGED <<data, epc>>
       ELSE /\ data' = ProcessSellerListings(outcome.items)
            /\ epc' = "check"
            /\ rpc' = "export"
            /\ UNCHANGED run_result
    /\ UNCHANGED <<row_idx, sheet, file, export_result>>
    /\ UNCHANGED env
    /\ UNCHANGED limiterVars
    /\ UNCHANGED fetchVars
    /\ UNCHANGED flatVars
    /\ UNCHANGED histVars

\* run, from the return of export_to_excel on
ExportReturned ==
    /\ rpc = "export"
    /\ epc = "done"
    /\ run_result' = export_result
    /\ rpc' = "done"
    /\ UNCHANGED env
    /\ UNCHANGED limiterVars
    /\ UNCHANGED fetchVars
    /\ UNCHANGED flatVars
    /\ UNCHANGED exportVars
    /\ UNCHANGED histVars

\* ------------------------------------------------------- specifications

InitFetchOff ==
    /\ server = <<>>
    /\ fpc = "off"
    /\ page = 1
    /\ all_items = <<>>
    /\ resp = NoResult
    /\ outcome = NoResult
    /\ request_count = 0
    /\ sent = <<>>
    /\ events = <<>>
    /\ processedAge = DelayTicks

InitExportOff ==
    /\ data = <<>>
    /\ epc = "off"
    /\ row_idx = 0
    /\ sheet = NoWorkbook
    /\ file = NoFile
    /\ export_result = NoResult

InitRunOff ==
    /\ env = Required
    /\ rpc = "off"
    /\ run_result = NoResult

InitFlatOff ==
    /\ item = Null
    /\ row = NoRow
    /\ InitExportOff
    /\ InitRunOff

InitLimiter ==
    /\ times = <<>>
    /\ lock = NoOwner
    /\ pc = [c \in Callers |-> "idle"]
    /\ now = [c \in Callers |-> 0]
    /\ sleepLeft = [c \in Callers |-> 0]
    /\ granted = <<>>

\* Several tasks call wait_for_slot on one shared limiter, as fast as they can.
InitCallers == InitLimiter /\ InitFetchOff /\ InitFlatOff

NextLimiter ==
    \/ \E c \in Callers : CallWait(c)
    \/ \E c \in Callers : Lock(c)
    \/ \E c \in Callers : ReadNow(c)
    \/ \E c \in Callers : Retain(c)
    \/ \E c \in Callers : Check(c)
    \/ \E c \in Callers : Push(c)
    \/ \E c \in Callers : Drop(c)
    \/ \E c \in Callers : Wake(c)
    \/ Tick

SpecLimiter == InitCallers /\ [][NextLimiter]_vars

\* The tokio runtime keeps polling every task that can go on, the Mutex hands
\* the guard to every task that waits for it, and time passes.  A task is free
\* not to call wait_for_slot again.
CallerStep(c) ==
    \/ ReadNow(c)
    \/ Retain(c)
    \/ Check(c)
    \/ Push(c)
    \/ Drop(c)
    \/ Wake(c)

FairLimiter ==
    /\ InitCallers
    /\ [][NextLimiter]_vars
    /\ WF_vars(Tick)
    /\ \A c \in Callers : WF_vars(CallerStep(c)) /\ SF_vars(Lock(c))

\* process_item alone, on each of FlattenInputs.
InitFlatten ==
    /\ InitLimiter
    /\ InitFetchOff
    /\ item \in FlattenInputs
    /\ row = NoRow
    /\ InitExportOff
    /\ InitRunOff

NextFlatten == ProcessItemCall

SpecFlatten == InitFlatten /\ [][NextFlatten]_vars

\* export_to_excel alone, on each of ExportInputs.
InitExport ==
    /\ InitLimiter
    /\ InitFetchOff
    /\ item = Null
    /\ row = NoRow
    /\ data \in ExportInputs
    /\ epc = "check"
    /\ row_idx = 0
    /\ sheet = NoWorkbook
    /\ file = NoFile
    /\ export_result = NoResult
    /\ InitRunOff

NextExport ==
    \/ ExportCheckEmpty
    \/ WriteHeaders
    \/ WriteRow
    \/ Save
    \/ Metadata

SpecExport == InitExport /\ [][NextExport]_vars

\* The fetch alone: one task fetches the seller's active listings.
Init ==
    /\ InitLimiter
    /\ server \in Scripts
    /\ fpc = "loop"
    /\ page = 1
    /\ all_items = <<>>
    /\ resp = NoResult
    /\ outcome = NoResult
    /\ request_count = 0
    /\ sent = <<>>
    /\ events = <<>>
    /\ processedAge = DelayTicks
    /\ InitFlatOff

Next ==
    \/ MakeRequest
    \/ Lock(Main)
    \/ ReadNow(Main)
    \/ Retain(Main)
    \/ Check(Main)
    \/ Push(Main)
    \/ IncrementRequest
    \/ SendRequest
    \/ ReceiveReply
    \/ LoopBody
    \/ EndDelay
    \/ Tick

Spec == Init /\ [][Next]_vars

\* Next has no Drop(Main) and no Wake(Main): successive requests of the fetch
\* are at least DelayTicks apart, so wait_for_slot never finds the window full
\* there, and the fetch is never stuck short of its return or of the last page.
FetchNeverWaits ==
    /\ pc[Main] \notin {"drop", "sleep"}
    /\ ENABLED Next \/ fpc = "done" \/ (fpc = "loop" /\ page > MaxPages)

\* The tokio runtime keeps polling the one task, time passes, and the server
\* answers every request it is sent.
ProgramStep ==
    \/ MakeRequest
    \/ Lock(Main)
    \/ ReadNow(Main)
    \/ Retain(Main)
    \/ Check(Main)
    \/ Push(Main)
    \/ IncrementRequest
    \/ SendRequest
    \/ ReceiveReply
    \/ LoopBody
    \/ EndDelay

\* For the liveness check every page, the first too, is drawn from LaterReplies.
InitFair ==
    /\ InitLimiter
    /\ server \in [1..MaxPages -> LaterReplies]
    /\ fpc = "loop"
    /\ page = 1
    /\ all_items = <<>>
    /\ resp = NoResult
    /\ outcome = NoResult
    /\ request_count = 0
    /\ sent = <<>>
    /\ events = <<>>
    /\ processedAge = DelayTicks
    /\ InitFlatOff

FairSpec == InitFair /\ [][Next]_vars /\ WF_vars(ProgramStep) /\ WF_vars(Tick)

\* The fetch against a server whose every page is drawn from PartReplies.
InitPart ==
    /\ InitLimiter
    /\ server \in [1..MaxPages -> PartReplies]
    /\ fpc = "loop"
    /\ page = 1
    /\ all_items = <<>>
    /\ resp = NoResult
    /\ outcome = NoResult
    /\ request_count = 0
    /\ sent = <<>>
    /\ events = <<>>
    /\ processedAge = DelayTicks
    /\ InitFlatOff

SpecPart == InitPart /\ [][Next]_vars

\* The whole run: validation, the fetch, the flattening and the export.
InitRun ==
    /\ InitLimiter
    /\ server \in Scripts
    /\ fpc = "off"
    /\ page = 1
    /\ all_items = <<>>
    /\ resp = NoResult
    /\ outcome = NoResult
    /\ request_count = 0
    /\ sent = <<>>
    /\ events = <<>>
    /\ processedAge = DelayTicks
    /\ item = Null
    /\ row = NoRow
    /\ InitExportOff
    /\ env \in SUBSET Required
    /\ rpc = "validate"
    /\ run_result = NoResult

NextRun ==
    \/ ValidateEnvironment
    \/ MakeRequest
    \/ Lock(Main)
    \/ ReadNow(Main)
    \/ Retain(Main)
    \/ Check(Main)
    \/ Push(Main)
    \/ IncrementRequest
    \/ SendRequest
    \/ ReceiveReply
    \/ LoopBody
    \/ EndDelay
    \/ Tick
    \/ FetchReturned
    \/ ExportCheckEmpty
    \/ WriteHeaders
    \/ WriteRow
    \/ Save
    \/ Metadata
    \/ ExportReturned

SpecRun == InitRun /\ [][NextRun]_vars

\* --------------------------------------------------------------- claims

\* What a reply carries, read off the reply itself.
ItemNode(r) == Get(Get(Get(r.tree, ListType), "ItemArray"), "Item")
FlagNode(r) == Get(Get(r.tree, ListType), "HasMoreItems")
PageItems(r) ==
    IF ItemNode(r) = Absent THEN <<>>
    ELSE IF ItemNode(r).t = "arr" THEN ItemNode(r).a
    ELSE <<ItemNode(r)>>
FlagTrue(r) == FlagNode(r) = Str("true")
Answered(r) == MakeRequestResult(r).ok

RECURSIVE ItemsUpTo(_)
ItemsUpTo(k) == IF k = 0 THEN <<>> ELSE ItemsUpTo(k - 1) \o PageItems(server[k])

PagesTo(j) == [i \in 1..j |-> i]

\* Replies make_request has received.
Received == IF fpc = "await" THEN Len(sent) - 1 ELSE Len(sent)

\* Replies the loop body has dealt with.
Processed == IF fpc = "done" THEN Len(sent) ELSE page - 1

\* C1: no sliding (half-open) 1-second window holds more than
\* REQUESTS_PER_SECOND granted slots: any REQUESTS_PER_SECOND + 1 consecutive
\* grants span at least one second, a grant being timed by the Instant pushed.
C1_WindowLimit ==
    \A i, j \in DOMAIN granted :
        j - i >= REQUESTS_PER_SECOND => granted[i] - granted[j] >= WindowTicks

C1_ThirdGrantWaited ==
    /\ Len(granted) = REQUESTS_PER_SECOND + 1
    /\ granted[1] - granted[Len(granted)] = WindowTicks

\* C2: the prune / count / push of wait_for_slot runs under the lock: a caller
\* inside it owns the lock, so no two callers are inside at once, and the list
\* never holds more than REQUESTS_PER_SECOND timestamps of the trailing second.
C2_UnderLock ==
    /\ \A c \in Callers : pc[c] \in InCritical => lock = c
    /\ Cardinality({i \in DOMAIN times : times[i] < WindowTicks}) <= REQUESTS_PER_SECOND

C2_Contended ==
    \E c, d \in Callers :
        /\ c # d
        /\ pc[c] = "push"
        /\ pc[d] = "lock"
        /\ Len(times) = REQUESTS_PER_SECOND - 1

\* C3: when pages 1..j-1 are non-empty with HasMoreItems "true" and page j is
\* empty, the fetch makes exactly the requests 1..j and returns the items of
\* pages 1..j-1 in order, whatever the flag of page j.
C3_EmptyPageEnds ==
    \A j \in 1..MaxPages :
        ( /\ fpc = "done"
          /\ \A i \in 1..j : Answered(server[i])
          /\ \A i \in 1..(j - 1) : PageItems(server[i]) # <<>> /\ FlagTrue(server[i])
          /\ PageItems(server[j]) = <<>> )
        => /\ sent = PagesTo(j)
           /\ outcome = FetchOk(ItemsUpTo(j - 1))

C3_TwoPagesThenEmpty ==
    /\ fpc = "done"
    /\ sent = PagesTo(3)
    /\ Answered(server[3])
    /\ PageItems(server[3]) = <<>>
    /\ outcome.ok
    /\ Len(outcome.items) = 4

\* C4 as stated: when page j is the first page whose HasMoreItems is not
\* "true" and page j is non-empty, the fetch makes exactly the requests 1..j
\* and returns the items of pages 1..j.
C4_AsStated ==
    \A j \in 1..MaxPages :
        ( /\ fpc = "done"
          /\ \A i \in 1..j : Answered(server[i])
          /\ \A i \in 1..(j - 1) : FlagTrue(server[i])
          /\ ~FlagTrue(server[j])
          /\ PageItems(server[j]) # <<>> )
        => /\ sent = PagesTo(j)
           /\ outcome = FetchOk(ItemsUpTo(j))

\* C4 as amended: the same, when also pages 1..j-1 are non-empty.
C4_FlagEnds ==
    \A j \in 1..MaxPages :
        ( /\ fpc = "done"
          /\ \A i \in 1..j : Answered(server[i])
          /\ \A i \in 1..(j - 1) : PageItems(server[i]) # <<>> /\ FlagTrue(server[i])
          /\ ~FlagTrue(server[j])
          /\ PageItems(server[j]) # <<>> )
        => /\ sent = PagesTo(j)
           /\ outcome = FetchOk(ItemsUpTo(j))

C4_EndedByFlag ==
    /\ fpc = "done"
    /\ sent = PagesTo(2)
    /\ Answered(server[2])
    /\ ~FlagTrue(server[2])
    /\ PageItems(server[2]) # <<>>
    /\ outcome.ok

\* C5: when make_request fails on page k, the fetch returns that error, not
\* the items of pages 1..k-1, and sends no request after the failing one.
C5_ErrorAborts ==
    \A k \in 1..Received :
        ~Answered(server[k])
        => /\ k = Len(sent)
           /\ fpc \in {"reply", "done"}
           /\ fpc = "done" => outcome = MakeRequestResult(server[k])

C5_ItemsDiscarded ==
    /\ fpc = "done"
    /\ Len(sent) = 2
    /\ ~outcome.ok
    /\ all_items # <<>>

\* A reply that ends the loop: the request failed, the page is empty, or its
\* HasMoreItems is not "true".
Ends(r) == ~Answered(r) \/ PageItems(r) = <<>> \/ ~FlagTrue(r)

\* C6 as stated: whatever the server does, the fetch eventually returns, its
\* loop ended by an empty page or by a HasMoreItems that is not "true".
C6_AsStated ==
    <>( /\ fpc = "done"
        /\ Answered(server[Len(sent)])
        /\ PageItems(server[Len(sent)]) = <<>> \/ ~FlagTrue(server[Len(sent)]) )

\* C6 as amended: when some page of the server fails, is empty or has a
\* HasMoreItems that is not "true", the fetch eventually returns, and it
\* returns at the first such page.
C6_ReturnsIfServerEnds ==
    (\E i \in 1..MaxPages : Ends(server[i]))
    => <>( /\ fpc = "done"
           /\ Ends(server[Len(sent)])
           /\ \A i \in 1..(Len(sent) - 1) : ~Ends(server[i]) )

C6_ReturnedAtSecondPage ==
    /\ fpc = "done"
    /\ Len(sent) = 2
    /\ ~Ends(server[1])
    /\ Ends(server[2])

\* C7: a reply with a non-success HTTP status makes make_request fail,
\* whatever its body.
C7_NonSuccessStatusFails ==
    (fpc = "reply" /\ server[page].net /\ server[page].status \notin 200..299)
    => ~resp.ok

\* C8: a decoded response whose Ack is "Failure" or "PartialFailure" makes
\* make_request fail with the response's Errors, also under HTTP 200; every
\* other decoded response is returned as it is.
C8_AckDecides ==
    (fpc = "reply" /\ server[page].net /\ server[page].parses)
    => LET value == server[page].tree
       IN  IF Get(value, "Ack") \in {Str("Failure"), Str("PartialFailure")}
           THEN resp = Err("api", Get(value, "Errors"))
           ELSE resp = Ok(value)

C8_FailureUnder200 ==
    /\ fpc = "reply"
    /\ server[page].status = 200
    /\ server[page].parses
    /\ Get(server[page].tree, "Ack") = Str("PartialFailure")
    /\ resp = Err("api", Absent)

\* C9: a page whose ItemArray.Item is a bare object or scalar, not a list,
\* counts as one item: the fetch appends exactly that node and does not leave
\* by the empty-page exit (it goes on when HasMoreItems is "true").
IsBare(node) == node # Absent /\ node.t # "arr"
C9_BareItemIsOne ==
    (Processed >= 1 /\ Answered(server[Processed]) /\ IsBare(ItemNode(server[Processed])))
    => /\ all_items = Append(ItemsUpTo(Processed - 1), ItemNode(server[Processed]))
       /\ fpc = "done" => outcome = FetchOk(all_items) /\ ~FlagTrue(server[Processed])
       /\ FlagTrue(server[Processed]) => fpc # "done" /\ page = Processed + 1

C9_BareObjectAppended ==
    /\ fpc = "delay"
    /\ page = 2
    /\ ItemNode(server[1]) = I3
    /\ all_items = <<I3>>

\* The fifteen columns, and the place in the record each is read from.
FieldNames ==
    {"Item ID", "SKU", "Title", "Category Name", "Start Price", "Current Price",
     "Currency", "Quantity", "Quantity Sold", "Listing Status", "Start Time",
     "End Time", "View Item URL", "Seller ID", "Payment Methods"}
FieldPath(f) ==
    CASE f = "Item ID" -> <<"ItemID">>
      [] f = "SKU" -> <<"SKU">>
      [] f = "Title" -> <<"Title">>
      [] f = "Category Name" -> <<"PrimaryCategory", "CategoryName">>
      [] f = "Start Price" -> <<"StartPrice", "_">>
      [] f = "Current Price" -> <<"SellingStatus", "CurrentPrice", "_">>
      [] f = "Currency" -> <<"SellingStatus", "CurrentPrice", "currencyID">>
      [] f = "Quantity" -> <<"Quantity">>
      [] f = "Quantity Sold" -> <<"SellingStatus", "QuantitySold">>
      [] f = "Listing Status" -> <<"SellingStatus", "ListingStatus">>
      [] f = "Start Time" -> <<"ListingDetails", "StartTime">>
      [] f = "End Time" -> <<"ListingDetails", "EndTime">>
      [] f = "View Item URL" -> <<"ListingDetails", "ViewItemURL">>
      [] f = "Seller ID" -> <<"Seller", "UserID">>
      [] f = "Payment Methods" -> <<"PaymentMethods">>

\* The node of the tree at the path, Absent when a segment is missing.
RECURSIVE NodeAt(_, _)
NodeAt(v, path) ==
    IF path = <<>> THEN v
    ELSE IF v.t = "obj" /\ Head(path) \in DOMAIN v.o
    THEN NodeAt(v.o[Head(path)], Tail(path))
    ELSE Absent
Unresolved(v, path) == NodeAt(v, path).t # "str"

\* C10 as stated: process_item returns a row for every record tree, its keys
\* the fifteen field names, and each field whose path misses a segment or ends
\* at a node that is not a string is "".
C10_AsStated ==
    /\ ~row.some => ENABLED ProcessItemCall
    /\ row.some =>
        /\ DOMAIN row.map = FieldNames
        /\ \A f \in FieldNames : Unresolved(item, FieldPath(f)) => row.map[f] = ""

\* C10 as amended: the same for the fourteen fields read by path; "Payment
\* Methods" is resolved by extract_payment_methods and may be non-empty when
\* its node is a list or an object.
C10_TotalFixedSchema ==
    /\ ~row.some => ENABLED ProcessItemCall
    /\ row.some =>
        /\ DOMAIN row.map = FieldNames
        /\ \A f \in FieldNames \ {"Payment Methods"} :
              Unresolved(item, FieldPath(f)) => row.map[f] = ""

C10_PartialRecordFlattened ==
    /\ row.some
    /\ item.t = "obj"
    /\ NodeAt(item, <<"SellingStatus", "CurrentPrice">>) = Str("9.99")
    /\ row.map["Current Price"] = ""
    /\ row.map["Quantity Sold"] = "3"

\* The string / collection rule of "Payment Methods".
StringOrJoined(v) ==
    IF v.t = "str" THEN v.s
    ELSE IF v.t = "arr" THEN Join(Strings(v.a), ", ")
    ELSE ""

\* C11: "Payment Methods" is the PaymentMethods node itself when that is a
\* string, its string elements joined with ", " when it is a collection, the
\* same string / collection rule applied to the value under "Payment" when it
\* is an object with that sub-key, and "" in every other case; "COD" gives
\* "COD", ["PayPal","COD"] gives "PayPal, COD", {"Payment": ["Cash"]} gives
\* "Cash" and {} gives "".
C11_PaymentMethodsOrder ==
    row.some =>
        LET pm == NodeAt(item, <<"PaymentMethods">>)
            got == row.map["Payment Methods"]
        IN  /\ pm.t \in {"str", "arr"} => got = StringOrJoined(pm)
            /\ (pm.t = "obj" /\ "Payment" \in DOMAIN pm.o) => got = StringOrJoined(pm.o["Payment"])
            /\ (pm.t = "obj" /\ "Payment" \notin DOMAIN pm.o) => got = ""
            /\ pm.t \notin {"str", "arr", "obj"} => got = ""
            /\ pm = Str("COD") => got = "COD"
            /\ pm = Arr(<<Str("PayPal"), Str("COD")>>) => got = "PayPal, COD"
            /\ pm = Arr(<<Str("PayPal"), Null, Str("COD")>>) => got = "PayPal, COD"
            /\ pm = Obj("Payment" :> Arr(<<Str("Cash")>>)) => got = "Cash"
            /\ pm = Obj(<<>>) => got = ""

C11_WrappedListJoined ==
    /\ row.some
    /\ NodeAt(item, <<"PaymentMethods">>) =
           Obj("Payment" :> Arr(<<Bool(TRUE), Str("Cash"), Str("Card")>>))
    /\ row.map["Payment Methods"] = "Cash, Card"

\* C12: export_to_excel handed zero rows returns the empty-dataset error with
\* no workbook created and nothing written to the file; handed N >= 1 rows it
\* either returns record_count = N or returns the error of a write, a save or
\* a metadata call that failed.
C12_EmptyFailsElseCounts ==
    /\ data = <<>> =>
          /\ ~sheet.created
          /\ file = NoFile
          /\ epc = "done" => export_result = Err("empty", Absent)
    /\ (data # <<>> /\ epc = "done") =>
          IF export_result.ok
          THEN /\ export_result.value.record_count = Len(data)
               /\ file.exists /\ file.whole /\ Len(file.rows) = Len(data)
          ELSE export_result.kind \in {"xlsx", "io"}

C12_TwoRowsExported ==
    /\ epc = "done"
    /\ Len(data) = 2
    /\ data[1] # data[2]
    /\ export_result.ok
    /\ export_result.value.record_count = 2

C12_EmptyRefused ==
    /\ epc = "done"
    /\ data = <<>>
    /\ export_result = Err("empty", Absent)

\* C13: in run, export_to_excel is entered only once the fetch has returned
\* Ok with at least one record; a validation error ends the run with that
\* error before any request, a fetch error ends it with that error, a fetch of
\* zero records ends it with Ok and record_count 0, and in these three cases
\* export_to_excel is never entered and nothing is written to the file.
C13_SinkOnlyAfterFetch ==
    /\ (epc # "off" \/ sheet.created \/ file # NoFile) =>
          /\ Missing(env) = {}
          /\ fpc = "done"
          /\ outcome.ok
          /\ Len(outcome.items) >= 1
          /\ Len(data) = Len(outcome.items)
    /\ Missing(env) # {} =>
          /\ sent = <<>> /\ fpc = "off"
          /\ rpc \in {"validate", "done"}
          /\ rpc = "done" => run_result = Err("env", Missing(env))
    /\ (fpc = "done" /\ ~outcome.ok) =>
          /\ rpc \in {"fetch", "done"}
          /\ rpc = "done" => run_result = outcome
    /\ (fpc = "done" /\ outcome = FetchOk(<<>>)) =>
          /\ rpc \in {"fetch", "done"}
          /\ rpc = "done" => run_result = Ok(ExportResult(0, 0))
    /\ (rpc = "done" /\ epc = "done" /\ run_result.ok) =>
          run_result.value.record_count = Len(outcome.items)

C13_FetchErrorNoFile ==
    /\ rpc = "done"
    /\ Len(sent) = 2
    /\ all_items # <<>>
    /\ ~run_result.ok
    /\ file = NoFile
    /\ epc = "off"

C13_ZeroRecordsOk ==
    /\ rpc = "done"
    /\ sent = <<1>>
    /\ run_result = Ok(ExportResult(0, 0))
    /\ file = NoFile

C13_Exported ==
    /\ rpc = "done"
    /\ run_result.ok
    /\ file.exists
    /\ Len(file.rows) = 4

\* How often a step is in the history, and the latest step.
Count(what) == Cardinality({i \in DOMAIN events : events[i].e = what})
LastEvent == IF events = <<>> THEN Event("none", 0) ELSE events[Len(events)]

C14_GrantedNotYetCounted ==
    /\ LastEvent.e = "slot"
    /\ request_count = 1
    /\ Count("slot") = 2

\* The pages of the steps of one kind, in the order they happened.
PagesOf(what) ==
    LET hits == SelectSeq(events, LAMBDA ev : ev.e = what)
    IN  [i \in DOMAIN hits |-> hits[i].page]

\* Each page 1, 2, 3, ... once in each list, and no step of a call without the
\* step before it.
OncePerPage(calls, slots, sends, replies) ==
    /\ calls = PagesTo(Len(calls))
    /\ slots = PagesTo(Len(slots))
    /\ sends = PagesTo(Len(sends))
    /\ replies = PagesTo(Len(replies))
    /\ Len(slots) <= Len(calls)
    /\ Len(sends) <= Len(slots)
    /\ Len(replies) <= Len(sends)
    /\ Len(calls) <= Len(replies) + 1
    /\ sent = sends

\* C15: nothing is retried: make_request is called once for each page number
\* 1, 2, 3, ..., each call takes exactly one rate-limiter slot and sends at most
\* one HTTP request, and after a call that failed or a page that came back
\* empty no further call is made.
C15_NoRetry ==
    /\ OncePerPage(PagesOf("call"), PagesOf("slot"), PagesOf("send"), PagesOf("reply"))
    /\ \A i \in DOMAIN events :
          ( /\ events[i].e = "reply"
            /\ ~Answered(server[events[i].page]) \/ PageItems(server[events[i].page]) = <<>> )
          => \A j \in (i + 1)..Len(events) : events[j] = Event("body", events[i].page)

C15_FailedOnceNotRetried ==
    /\ fpc = "done"
    /\ ~outcome.ok
    /\ PagesOf("call") = <<1, 2>>
    /\ PagesOf("slot") = <<1, 2>>
    /\ sent = <<1, 2>>

\* C16: after a page that was answered and is not empty, the fetch goes on to
\* the next page exactly when the HasMoreItems of its list container is the
\* string "true"; with the flag absent, another string ("True", "false") or not
\* a string, the fetch returns after that page with the items up to it.
C16_ExactTrueContinues ==
    \A k \in 1..Processed :
        (Answered(server[k]) /\ PageItems(server[k]) # <<>>) =>
            IF FlagNode(server[k]) = Str("true")
            THEN page > k
            ELSE /\ fpc = "done"
                 /\ Len(sent) = k
                 /\ page = k
                 /\ outcome = FetchOk(ItemsUpTo(k))

C16_CapitalTrueStops ==
    /\ fpc = "done"
    /\ sent = <<1>>
    /\ FlagNode(server[1]) = Str("True")
    /\ PageItems(server[1]) # <<>>
    /\ outcome = FetchOk(PageItems(server[1]))

C16_BooleanTrueStops ==
    /\ fpc = "done"
    /\ sent = <<1>>
    /\ FlagNode(server[1]) = Bool(TRUE)
    /\ PageItems(server[1]) # <<>>

\* C17: the pages are requested one after the other: the requests sent are
\* for the pages 1, 2, 3, ... without gap or repeat, make_request for page k+1
\* is called only when the loop body has finished with the reply to page k and
\* the inter-page delay has passed since, and at most one request is in flight.
C17_Sequential ==
    /\ sent = PagesTo(Len(sent))
    /\ PagesOf("send") = sent
    /\ \A i \in DOMAIN events :
          /\ (events[i].e = "call" /\ events[i].page > 1) =>
                i > 1 /\ events[i - 1] = Event("body", events[i].page - 1)
          /\ (events[i].e = "call" /\ events[i].page = 1) => i = 1
          /\ events[i].e = "body" => i > 1 /\ events[i - 1] = Event("reply", events[i].page)
          /\ events[i].e = "reply" => i > 1 /\ events[i - 1] = Event("send", events[i].page)
    /\ (page > 1 /\ fpc \in {"wait", "send", "await", "reply"}) => processedAge >= DelayTicks
    /\ Count("send") - Count("reply") \in {0, 1}
    /\ Count("send") - Count("reply") = 1 <=> fpc = "await"

C17_ThirdPageInFlight ==
    /\ fpc = "await"
    /\ sent = <<1, 2, 3>>
    /\ Count("reply") = 2
    /\ Count("body") = 2

\* The timestamps of the list that the history of grants still follows.
Young(ts) == SelectSeq(ts, LAMBDA t : t < AgeCap)

\* C18: the timestamp list never holds more than REQUESTS_PER_SECOND entries,
\* is in non-decreasing time order (non-increasing age), and holds only
\* timestamps of granted slots (the latest grants, in their order); once a
\* caller has pruned under the lock, the list holds no timestamp 1 second old
\* or older relative to that caller's `now`.
C18_ListInvariant ==
    /\ Len(times) <= REQUESTS_PER_SECOND
    /\ \A i, j \in DOMAIN times : i < j => times[i] >= times[j]
    /\ Len(Young(times)) <= Len(granted)
    /\ Young(times) = SubSeq(granted, Len(granted) - Len(Young(times)) + 1, Len(granted))
    /\ \A c \in Callers :
          pc[c] \in {"check", "push"} =>
              \A i \in DOMAIN times : DurationSince(now[c], times[i]) < WindowTicks

C18_PrunedToOne ==
    \E c \in Callers :
        /\ pc[c] = "check"
        /\ Len(times) = 1
        /\ times[1] - now[c] = WindowTicks - 1
        /\ Len(granted) >= 2
        /\ granted[Len(granted) - 1] - now[c] >= WindowTicks

\* Caller c is inside wait_for_slot.
Waiting(c) == pc[c] # "idle"

\* C19 as stated: with callers sharing one limiter, time advancing and fair
\* scheduling, every wait_for_slot call eventually returns.
C19_AsStated == \A c \in Callers : Waiting(c) ~> ~Waiting(c)

\* C19 as amended: a caller whose check finds fewer than REQUESTS_PER_SECOND
\* timestamps pushes and returns without sleeping; some waiting caller is always
\* eventually granted; and a caller returns from every call once the other
\* callers have stopped calling (it does not wait for ever while they all stay
\* outside wait_for_slot).
C19_ReturnsWhenUncontended ==
    /\ [][\A c \in Callers :
            /\ (pc[c] = "check" /\ Len(times) < REQUESTS_PER_SECOND)
                  => pc'[c] \in {"check", "push"}
            /\ pc[c] = "push" => pc'[c] \in {"push", "idle"}]_vars
    /\ (\E c \in Callers : Waiting(c)) ~> (\E c \in Callers : pc[c] = "push")
    /\ \A c \in Callers : []<>(~Waiting(c) \/ \E d \in Callers \ {c} : Waiting(d))

C19_PollsWhileOtherTakes ==
    \E c, d \in Callers :
        /\ c # d
        /\ pc[c] = "sleep"
        /\ pc[d] = "push"
        /\ Len(times) = REQUESTS_PER_SECOND - 1
        /\ Len(granted) = REQUESTS_PER_SECOND + 1

\* The reply has no list container, or no ItemArray in it, or no Item in that.
Lacks(r) ==
    LET container == Get(r.tree, ListType)
    IN  \/ container = Absent
        \/ Get(container, "ItemArray") = Absent
        \/ Get(Get(container, "ItemArray"), "Item") = Absent

\* C20: when pages 1..k-1 are non-empty with HasMoreItems "true" and the
\* successful reply for page k lacks the list container, its ItemArray or the
\* Item inside, the fetch stops at page k without error, after exactly the
\* requests 1..k, and returns the items of pages 1..k-1: Ok with no items when
\* page 1 is such a reply.
C20_MissingContainerEnds ==
    \A k \in 1..MaxPages :
        ( /\ Processed >= k
          /\ \A i \in 1..k : Answered(server[i])
          /\ \A i \in 1..(k - 1) : PageItems(server[i]) # <<>> /\ FlagTrue(server[i])
          /\ Lacks(server[k]) )
        => /\ fpc = "done"
           /\ sent = PagesTo(k)
           /\ outcome = FetchOk(ItemsUpTo(k - 1))
           /\ k = 1 => outcome = FetchOk(<<>>)

C20_NoContainerOnThirdPage ==
    /\ fpc = "done"
    /\ sent = <<1, 2, 3>>
    /\ Get(server[3].tree, ListType) = Absent
    /\ outcome.ok
    /\ Len(outcome.items) = 3

C20_NoContainerOnFirstPage ==
    /\ fpc = "done"
    /\ sent = <<1>>
    /\ Get(server[1].tree, ListType) = Absent
    /\ outcome = FetchOk(<<>>)

====
